---- MODULE Spec2Model ----
(***************************************************************************)
(* A state-machine model of the weather-aware property search:             *)
(*   - the weather taxonomy            (lib/weather.ts)                    *)
(*   - the query helpers               (lib/utils.ts)                      *)
(*   - the weather cache and fetcher   (lib/openMeteo.ts)                  *)
(*   - the filtered search pipeline    (use-cases/getProperties.ts)        *)
(*                                                                         *)
(* Optional values (number | null | undefined) are sequences of length at  *)
(* most one: <<>> is null/undefined, <<v>> is the value v.                 *)
(* Coordinates are integers counting units of 10^-5 degree, so that one    *)
(* decimal digit beyond the cache key's four is visible.                   *)
(* Page numbers are integers counting halves (PageDen = 2), because the    *)
(* code does not round the page number to a whole number.                  *)
(***************************************************************************)
EXTENDS Integers, Sequences, FiniteSets, TLC

None == <<>>
Some(v) == <<v>>
IsNum(x) == x # <<>>
Val(x) == x[1]

Min2(a, b) == IF a < b THEN a ELSE b
Max2(a, b) == IF a > b THEN a ELSE b
Abs(x) == IF x < 0 THEN 0 - x ELSE x

\* Array.prototype.slice(start, end) for 0 <= start <= end (zero-based, end exclusive)
Slice(s, start, end) ==
    SubSeq(s, Min2(start, Len(s)) + 1, Min2(end, Len(s)))

----------------------------------------------------------------------------
(* Bounds of the model *)

\* rows in the datastore
MaxRows == 3
\* the clock stops ticking here
MaxNow == 2
\* how often the upstream weather may change during a behaviour
MaxChanges == 1
\* rows scanned per datastore batch; the code fixes it at 200
BATCH_SIZE == 2
\* WEATHER_CONCURRENCY, default 5
CONCURRENCY == 2
\* WEATHER_CACHE_TTL, in clock ticks; default 600 s
CACHE_TTL_SECONDS == 1
\* the largest coordinate cacheKey is applied to, in units of 10^-5 degree
MaxCoord == 25
\* the longest hourly series of an upstream reply
MaxSeries == 3
\* the largest weather code classified
MaxCode == 99
\* the longest list of requested group names
MaxTokens == 3

\* units per degree digit: a coordinate c stands for c / 10^5
CoordUnit == 10
\* page numbers count halves
PageDen == 2

----------------------------------------------------------------------------
(* lib/weather.ts *)

WEATHER_GROUP_KEYS == <<"clear", "cloudy", "drizzle", "rainy", "snow">>

WeatherGroups ==
    [g \in {"clear", "cloudy", "drizzle", "rainy", "snow"} |->
        CASE g = "clear"   -> {0}
          [] g = "cloudy"  -> {1, 2, 3}
          [] g = "drizzle" -> {51, 52, 53, 54, 55, 56, 57}
          [] g = "rainy"   -> {61, 62, 63, 64, 65, 66, 67, 80, 81, 82}
          [] g = "snow"    -> {71, 72, 73, 74, 75, 76, 77, 85, 86}]

IsKnownGroup(g) == \E i \in 1..Len(WEATHER_GROUP_KEYS) : WEATHER_GROUP_KEYS[i] = g

\* the unknown names are not removed from the list
matchesWeatherGroup_UnknownRejects(code, groups) ==
    IF Len(groups) = 0 THEN TRUE
    ELSE IF ~IsNum(code) THEN FALSE
    ELSE \E i \in 1..Len(groups) :
            IsKnownGroup(groups[i]) /\ Val(code) \in WeatherGroups[groups[i]]

\* code: optional number; groups: sequence of group names
matchesWeatherGroup(code, groups) ==
    IF Len(groups) = 0 THEN TRUE
    ELSE LET validGroups == SelectSeq(groups, IsKnownGroup)
         IN IF Len(validGroups) = 0 THEN TRUE
            ELSE IF ~IsNum(code) THEN FALSE
            ELSE \E i \in 1..Len(validGroups) : Val(code) \in WeatherGroups[validGroups[i]]

\* the last key is never looked at
getWeatherGroupLabel_SkipLast(code) ==
    IF ~IsNum(code) THEN None
    ELSE LET hits == {i \in 1..(Len(WEATHER_GROUP_KEYS) - 1) :
                         Val(code) \in WeatherGroups[WEATHER_GROUP_KEYS[i]]}
         IN IF hits = {} THEN None
            ELSE Some(WEATHER_GROUP_KEYS[CHOOSE i \in hits : \A j \in hits : i <= j])

\* the first group, in key order, whose set has the code; None when there is none
getWeatherGroupLabel(code) ==
    IF ~IsNum(code) THEN None
    ELSE LET hits == {i \in 1..Len(WEATHER_GROUP_KEYS) :
                         Val(code) \in WeatherGroups[WEATHER_GROUP_KEYS[i]]}
         IN IF hits = {} THEN None
            ELSE Some(WEATHER_GROUP_KEYS[CHOOSE i \in hits : \A j \in hits : i <= j])

----------------------------------------------------------------------------
(* lib/utils.ts *)

\* A raw query value is [t |-> "missing"], [t |-> "bad"] (a string that is
\* not a finite number) or [t |-> "num", v |-> n].
Missing == [t |-> "missing", v |-> 0]
Bad == [t |-> "bad", v |-> 0]
Num(n) == [t |-> "num", v |-> n]

parseNumber(q) == IF q.t = "num" THEN Some(q.v) ELSE None

clamp(n, min, max) == Max2(min, Min2(max, n))

\* raw: [t |-> "missing"] or [t |-> "str", toks |-> the trimmed, comma-separated tokens]
NoWeather == [t |-> "missing", toks |-> <<>>]
WeatherParam(toks) == [t |-> "str", toks |-> toks]

parseWeatherGroups(raw) ==
    IF raw.t = "missing" THEN <<>>
    ELSE LET arr == SelectSeq(raw.toks, LAMBDA s : s # "")
         IN SelectSeq(arr, IsKnownGroup)

----------------------------------------------------------------------------
(* lib/openMeteo.ts: cache key *)

CACHE_ROUND_DIGITS == 4

\* three digits kept instead of four
toFixed_ThreeDigits(c) ==
    [neg |-> c < 0, n |-> (Abs(c) + ((CoordUnit * 10) \div 2)) \div (CoordUnit * 10)]

\* Number.prototype.toFixed(4) of the coordinate c / 10^5: the sign, then the
\* integer n for which n / 10^4 is nearest to the magnitude, the larger n on
\* a tie.  The string is determined by (sign, n) and determines them.
toFixed(c) == [neg |-> c < 0, n |-> (Abs(c) + (CoordUnit \div 2)) \div CoordUnit]

cacheKey(lat, lng) == <<toFixed(lat), toFixed(lng)>>

----------------------------------------------------------------------------
(* lib/openMeteo.ts: the upstream response and what fetchWeather reads from it *)

\* A timestamp of the hourly series: kind "ok" parses as it is, "needsZ"
\* parses once "Z" is appended, "bad" never parses; t is the parsed time.
Stamp(kind, t) == [kind |-> kind, t |-> t]

\* The reply of the upstream call: ok = FALSE is a network error, a timeout
\* or a non-success status; otherwise cw is the optional current_weather
\* object and time/hum are the hourly series.
Failure == [ok |-> FALSE, cw |-> None, time |-> <<>>, hum |-> <<>>]
Reply(cw, time, hum) == [ok |-> TRUE, cw |-> cw, time |-> time, hum |-> hum]
Current(temperature, weathercode) == Some([temperature |-> temperature, weathercode |-> weathercode])

Parses(stamp) == stamp.kind # "bad"

RECURSIVE NearestIdx_LastOnTie(_, _, _, _, _)
\* a sample as near as the best one replaces it
NearestIdx_LastOnTie(times, at, i, bestIdx, bestDiff) ==
    IF i > Len(times) THEN bestIdx
    ELSE IF ~Parses(times[i]) THEN NearestIdx_LastOnTie(times, at, i + 1, bestIdx, bestDiff)
    ELSE LET diff == Abs(at - times[i].t)
         IN IF ~IsNum(bestDiff) \/ diff <= Val(bestDiff)
            THEN NearestIdx_LastOnTie(times, at, i + 1, i, Some(diff))
            ELSE NearestIdx_LastOnTie(times, at, i + 1, bestIdx, bestDiff)

RECURSIVE NearestIdx(_, _, _, _, _)
\* the loop of lines 80-90: bestIdx after the samples i..Len(times) were seen;
\* bestDiff = None stands for Infinity
NearestIdx(times, at, i, bestIdx, bestDiff) ==
    IF i > Len(times) THEN bestIdx
    ELSE IF ~Parses(times[i]) THEN NearestIdx(times, at, i + 1, bestIdx, bestDiff)
    ELSE LET diff == Abs(at - times[i].t)
         IN IF ~IsNum(bestDiff) \/ diff < Val(bestDiff)
            THEN NearestIdx(times, at, i + 1, i, Some(diff))
            ELSE NearestIdx(times, at, i + 1, bestIdx, bestDiff)

ExtractHumidity(data, at) ==
    IF Len(data.time) > 0 /\ Len(data.hum) > 0 /\ Len(data.time) = Len(data.hum)
    THEN data.hum[NearestIdx(data.time, at, 1, 1, None)]
    ELSE None

\* the WeatherResult composed from a successful reply at time `at`
ComposeResult(data, at) ==
    [temperature |-> IF IsNum(data.cw) THEN Val(data.cw).temperature ELSE None,
     weathercode |-> IF IsNum(data.cw) THEN Val(data.cw).weathercode ELSE None,
     humidity    |-> ExtractHumidity(data, at),
     fetchedAt   |-> at]

----------------------------------------------------------------------------
(* lib/openMeteo.ts: the node-cache instance *)

\* the expiry is never looked at
Unexpired_Forever(c, key, at) == key \in DOMAIN c

\* an entry is valid at time `at` while its expiry t has not passed
Unexpired(c, key, at) == key \in DOMAIN c /\ c[key].t >= at

\* cache.get: the entry's value, or None; an expired entry is deleted on access
CacheGetValue(c, key, at) == IF Unexpired(c, key, at) THEN Some(c[key].v) ELSE None
CacheAfterGet(c, key, at) ==
    IF key \in DOMAIN c /\ ~Unexpired(c, key, at)
    THEN [k \in DOMAIN c \ {key} |-> c[k]]
    ELSE c

\* an entry that is there is kept: the first write wins
CacheSet_KeepFirst(c, key, value, at) ==
    IF key \in DOMAIN c THEN c
    ELSE [k \in DOMAIN c \cup {key} |->
             IF k = key THEN [v |-> value, t |-> at + CACHE_TTL_SECONDS] ELSE c[k]]

\* cache.set with the standard TTL
CacheSet(c, key, value, at) ==
    [k \in DOMAIN c \cup {key} |->
        IF k = key THEN [v |-> value, t |-> at + CACHE_TTL_SECONDS] ELSE c[k]]

\* the composed result is stored whether or not the call succeeded
CacheAfterFetch_Always(c, key, data, result, at) == CacheSet(c, key, result, at)

\* lines 57-113: the cache once the upstream call has ended; cache.set is
\* reached only when the call returned, a throw goes past it to the catch
CacheAfterFetch(c, key, data, result, at) ==
    IF data.ok THEN CacheSet(c, key, result, at) ELSE c

\* the periodic check (checkperiod) removes the expired entries
CacheSweep(c, at) == [k \in {k \in DOMAIN c : Unexpired(c, k, at)} |-> c[k]]

----------------------------------------------------------------------------
(* The state *)

VARIABLES
    datastore,      \* the rows the text predicate selects, in scan order
    upstream,       \* what the weather provider answers now, per cache cell
    changes,        \* how often the provider's answers have changed
    now,            \* Date.now()
    cache,          \* the node-cache instance: key -> [v: WeatherResult, t: expiry]
    queue,          \* p-limit's queue of tasks <<request, index>> not yet started
    activeCount,    \* p-limit's count of running tasks
    query,          \* per request: the raw query parameters
    pc,             \* per request: where the handler is suspended
    crit,           \* per request: the normalized filter criteria
    filtered,       \* per request: the accumulator of filtered rows
    totalChecked,   \* per request: rows scanned so far
    hasMore,        \* per request: the loop flag
    dbBatch,        \* per request: the last datastore batch
    call,           \* per request: the tasks of the running fetchWeatherForProperties
    response,       \* per request: the response sent
    nCount,         \* per request: datastore count queries issued
    nFind,          \* per request: datastore findMany queries issued
    nFetch,         \* per request: fetchWeather calls begun (a limiter slot each)
    nUpstream,      \* per request: upstream HTTP calls issued
    nCacheSet,      \* per request: cache entries written
    stable,         \* per request: the weather has not changed since it began
    fnArg,          \* the arguments a pure function is applied to
    fnOut           \* None, or its result

vars == <<datastore, upstream, changes, now, cache, queue, activeCount, query, pc,
          crit, filtered, totalChecked, hasMore, dbBatch, call, response,
          nCount, nFind, nFetch, nUpstream, nCacheSet, stable, fnArg, fnOut>>

pureVars == <<fnArg, fnOut>>
envVars == <<datastore, upstream, changes, now>>
limiterVars == <<cache, queue, activeCount, call>>
scanVars == <<filtered, totalChecked, hasMore, dbBatch>>
countVars == <<nCount, nFind, nFetch, nUpstream, nCacheSet>>

Requests == {1, 2}

----------------------------------------------------------------------------
(* The values the model draws its inputs from *)

NoCoords == [lat |-> None, lng |-> None]
At(lat, lng) == [lat |-> Some(lat), lng |-> Some(lng)]

\* 0.00004 and 0.00014 lie in different cache cells, 0.00005 and 0.00014 in the same
PlaceA == At(4, 0)
PlaceB == At(14, 0)
PlaceC == At(5, 0)

Row(id, place) == [id |-> id, lat |-> place.lat, lng |-> place.lng]

Places == {PlaceA, PlaceB, PlaceC}
Cells == {cacheKey(Val(pl.lat), Val(pl.lng)) : pl \in Places}

Mild == Reply(Current(Some(15), Some(0)), <<Stamp("ok", 0)>>, <<Some(55)>>)
Wet == Reply(Current(Some(25), Some(61)), <<Stamp("ok", 0)>>, <<Some(55)>>)
Replies == {Failure, Mild, Wet}
\* a reply without current_weather and without an hourly series
Bare == Reply(None, <<>>, <<>>)

NoQuery ==
    [tempMin |-> Missing, tempMax |-> Missing, humMin |-> Missing, humMax |-> Missing,
     take |-> Missing, page |-> Missing, weather |-> NoWeather]

\* take and page count halves: Num(3) is the query value 1.5
Paged(q, take, page) == [q EXCEPT !.take = Num(take * PageDen), !.page = Num(page)]
Temperate == [NoQuery EXCEPT !.tempMin = Num(10), !.tempMax = Num(20)]
ClearSky == [NoQuery EXCEPT !.weather = WeatherParam(<<"clear", "fog">>)]

----------------------------------------------------------------------------
(* use-cases/getProperties.ts: normalization *)

Bound(raw, min, max) ==
    LET n == parseNumber(raw) IN IF IsNum(n) THEN Some(clamp(Val(n), min, max)) ELSE None

\* Math.floor of a number counted in halves
Floor(h) == h \div PageDen

Normalize(q) ==
    LET takeRaw == IF IsNum(parseNumber(q.take)) THEN Val(parseNumber(q.take)) ELSE 20 * PageDen
        pageRaw == IF IsNum(parseNumber(q.page)) THEN Val(parseNumber(q.page)) ELSE 1 * PageDen
    IN [tempMin |-> Bound(q.tempMin, -20, 50),
        tempMax |-> Bound(q.tempMax, -20, 50),
        humMin  |-> Bound(q.humMin, 0, 100),
        humMax  |-> Bound(q.humMax, 0, 100),
        take    |-> Min2(Max2(1, Floor(takeRaw)), 200),
        page    |-> Max2(1 * PageDen, pageRaw),
        weatherGroups |-> parseWeatherGroups(q.weather)]

hasWeatherFilters(c) ==
    \/ IsNum(c.tempMin)
    \/ IsNum(c.tempMax)
    \/ IsNum(c.humMin)
    \/ IsNum(c.humMax)
    \/ Len(c.weatherGroups) > 0

\* page * take and (page - 1) * take, counted in halves
PageEnd(c) == c.page * c.take
PageStart(c) == (c.page - PageDen) * c.take

----------------------------------------------------------------------------
(* use-cases/getProperties.ts: the weather predicate and the mapped row *)

\* a missing temperature or humidity satisfies every bound
Passes_MissingPasses(w, c) ==
    /\ IsNum(w)
    /\ ~(IsNum(c.tempMin) /\ IsNum(Val(w).temperature) /\ Val(Val(w).temperature) < Val(c.tempMin))
    /\ ~(IsNum(c.tempMax) /\ IsNum(Val(w).temperature) /\ Val(Val(w).temperature) > Val(c.tempMax))
    /\ ~(IsNum(c.humMin) /\ IsNum(Val(w).humidity) /\ Val(Val(w).humidity) < Val(c.humMin))
    /\ ~(IsNum(c.humMax) /\ IsNum(Val(w).humidity) /\ Val(Val(w).humidity) > Val(c.humMax))
    /\ (Len(c.weatherGroups) > 0 =>
            /\ IsNum(Val(w).weathercode)
            /\ matchesWeatherGroup(Val(w).weathercode, c.weatherGroups))

\* w: an optional WeatherResult
Passes(w, c) ==
    /\ IsNum(w)
    /\ ~(IsNum(c.tempMin) /\ (~IsNum(Val(w).temperature) \/ Val(Val(w).temperature) < Val(c.tempMin)))
    /\ ~(IsNum(c.tempMax) /\ (~IsNum(Val(w).temperature) \/ Val(Val(w).temperature) > Val(c.tempMax)))
    /\ ~(IsNum(c.humMin) /\ (~IsNum(Val(w).humidity) \/ Val(Val(w).humidity) < Val(c.humMin)))
    /\ ~(IsNum(c.humMax) /\ (~IsNum(Val(w).humidity) \/ Val(Val(w).humidity) > Val(c.humMax)))
    /\ (Len(c.weatherGroups) > 0 =>
            /\ IsNum(Val(w).weathercode)
            /\ matchesWeatherGroup(Val(w).weathercode, c.weatherGroups))

HasCoords(p) == IsNum(p.lat) /\ IsNum(p.lng)

\* the row of the batch with the id (idToProp.get)
BaseOf(batch, id) == batch[CHOOSE i \in 1..Len(batch) : batch[i].id = id]

Mapped(batch, e) ==
    [base |-> BaseOf(batch, e.id),
     weather |-> [temperature |-> Val(e.weather).temperature,
                  weathercode |-> Val(e.weather).weathercode,
                  humidity |-> Val(e.weather).humidity,
                  fetchedAt |-> Val(e.weather).fetchedAt,
                  weatherGroup |-> getWeatherGroupLabel(Val(e.weather).weathercode)],
     weatherError |-> e.weatherError]

RECURSIVE MapSeq(_, _)
MapSeq(batch, es) ==
    IF es = <<>> THEN <<>> ELSE <<Mapped(batch, Head(es))>> \o MapSeq(batch, Tail(es))

----------------------------------------------------------------------------
(* The responses *)

Ok(data, page, take, total, hasNextPage) ==
    [status |-> 200, data |-> data, page |-> page, take |-> take, total |-> total,
     hasNextPage |-> hasNextPage]
InternalError ==
    [status |-> 500, data |-> <<>>, page |-> 0, take |-> 0, total |-> 0, hasNextPage |-> FALSE]
NoResponse ==
    [status |-> 0, data |-> <<>>, page |-> 0, take |-> 0, total |-> 0, hasNextPage |-> FALSE]

----------------------------------------------------------------------------
(* lib/openMeteo.ts: fetchWeatherForProperties, fetchWeather and the limiter *)

FetchFailed == "OpenMeteo fetch failed"

Entry(p, weather, weatherError) ==
    [id |-> p.id, lat |-> p.lat, lng |-> p.lng, weather |-> weather, weatherError |-> weatherError]

NoEntry == [id |-> 0, lat |-> 0, lng |-> 0, weather |-> None, weatherError |-> None]

\* a task of the limiter: one element of props.map(...)
Queued(p) == [p |-> p, st |-> "queued", res |-> NoEntry]
InFlight(p) == [p |-> p, st |-> "inflight", res |-> NoEntry]
\* lines 137-144: the fetch returned a result
SettleOk(p, weather) == [p |-> p, st |-> "fulfilled", res |-> Entry(p, Some(weather), None)]
\* no try/catch around the fetch: the task rejects and Promise.all with it
SettleFailed_Rejects(p, message) == [p |-> p, st |-> "rejected", res |-> Entry(p, None, Some(message))]

\* lines 145-153: the fetch threw; the task still fulfils, with the error recorded
SettleFailed(p, message) == [p |-> p, st |-> "fulfilled", res |-> Entry(p, None, Some(message))]

\* a task counts as done as soon as it has started
Settled_Started(task) == task.st # "queued"

Settled(task) == task.st \in {"fulfilled", "rejected"}

Bump(f, r) == [f EXCEPT ![r] = @ + 1]

\* the running tasks are not counted
FreeSlots_Unbounded(active) == CONCURRENCY

\* the slots p-limit has free
FreeSlots(active) == CONCURRENCY - active

\* p-limit starts queued tasks, oldest first, while fewer than CONCURRENCY run.
\* A started task runs fetchWeather up to its first suspension (part_001
\* lines 50-57): on a cache hit it settles at once and frees its slot, on a
\* miss the upstream call is issued and the slot stays taken.  So the tasks
\* started are the longest prefix of the queue in which fewer misses than
\* free slots precede each task.  The lookups only delete expired entries,
\* so a lookup hits exactly when the entry is unexpired before the pump.
\* l = [queue, active, cache, call, nFetch, nUpstream]
Pump(l, at) ==
    LET TaskP(j) == l.call[l.queue[j][1]][l.queue[j][2]].p
        KeyAt(j) == cacheKey(TaskP(j).lat, TaskP(j).lng)
        Miss(j) == ~IsNum(CacheGetValue(l.cache, KeyAt(j), at))
        MissesBefore(j) == Cardinality({m \in 1..(j - 1) : Miss(m)})
        started == {j \in 1..Len(l.queue) : MissesBefore(j) < FreeSlots(l.active)}
        lookedUp == {KeyAt(j) : j \in started}
        StartedAs(r, i) == {j \in started : l.queue[j] = <<r, i>>}
    IN [queue |-> SubSeq(l.queue, Cardinality(started) + 1, Len(l.queue)),
        active |-> l.active + Cardinality({j \in started : Miss(j)}),
        cache |-> [k \in {k \in DOMAIN l.cache : k \in lookedUp => Unexpired(l.cache, k, at)}
                      |-> l.cache[k]],
        call |-> [r \in Requests |->
                    [i \in DOMAIN l.call[r] |->
                        IF StartedAs(r, i) = {} THEN l.call[r][i]
                        ELSE LET p == l.call[r][i].p
                                 cached == CacheGetValue(l.cache, cacheKey(p.lat, p.lng), at)
                             IN IF IsNum(cached) THEN SettleOk(p, Val(cached)) ELSE InFlight(p)]],
        nFetch |-> [r \in Requests |->
                      l.nFetch[r] + Cardinality({j \in started : l.queue[j][1] = r})],
        nUpstream |-> [r \in Requests |->
                      l.nUpstream[r] + Cardinality({j \in started : l.queue[j][1] = r /\ Miss(j)})]]

Limiter == [queue |-> queue, active |-> activeCount, cache |-> cache, call |-> call,
            nFetch |-> nFetch, nUpstream |-> nUpstream]

SetLimiter(l) ==
    /\ queue' = l.queue
    /\ activeCount' = l.active
    /\ cache' = l.cache
    /\ call' = l.call
    /\ nFetch' = l.nFetch
    /\ nUpstream' = l.nUpstream

\* props.map((p) => limit(...)): one queued task per element, in input order
Enqueue(l, r, props) ==
    [l EXCEPT !.call[r] = [i \in 1..Len(props) |-> Queued(props[i])],
              !.queue = l.queue \o [i \in 1..Len(props) |-> <<r, i>>]]

ToFetch(row) == [id |-> row.id, lat |-> Val(row.lat), lng |-> Val(row.lng)]

RECURSIVE ToFetchSeq(_)
ToFetchSeq(rows) ==
    IF rows = <<>> THEN <<>> ELSE <<ToFetch(Head(rows))>> \o ToFetchSeq(Tail(rows))

RECURSIVE Results_DropFailed(_)
\* the entries without weather are left out of the list
Results_DropFailed(tasks) ==
    IF tasks = <<>> THEN <<>>
    ELSE (IF IsNum(Head(tasks).res.weather) THEN <<Head(tasks).res>> ELSE <<>>)
             \o Results_DropFailed(Tail(tasks))

RECURSIVE Results(_)
\* Promise.all: the results of the tasks, in the order of the input
Results(tasks) ==
    IF tasks = <<>> THEN <<>> ELSE <<Head(tasks).res>> \o Results(Tail(tasks))

----------------------------------------------------------------------------
(* What the provider would answer now, and whether a request saw it change *)

KeyOf(row) == cacheKey(Val(row.lat), Val(row.lng))

SameReading(w1, w2) ==
    /\ w1.temperature = w2.temperature
    /\ w1.weathercode = w2.weathercode
    /\ w1.humidity = w2.humidity

\* every cached result is what a fresh fetch would compose at time `at`
CacheAgrees(c, up, at) ==
    \A k \in DOMAIN c : up[k].ok /\ SameReading(c[k].v, ComposeResult(up[k], at))

\* the fresh results do not differ between the times at1 and at2
SameWeather(up1, at1, up2, at2) ==
    \A k \in Cells :
        /\ up1[k].ok = up2[k].ok
        /\ up1[k].ok => SameReading(ComposeResult(up1[k], at1), ComposeResult(up2[k], at2))

Running(r) == pc[r] \notin {"off", "idle"}

----------------------------------------------------------------------------
(* use-cases/getProperties.ts: the handler, one action per suspension *)

\* lines 9-53: normalize the query and choose the path
Start(r) ==
    /\ pc[r] = "idle"
    /\ crit' = [crit EXCEPT ![r] = Normalize(query[r])]
    /\ pc' = [pc EXCEPT ![r] = IF hasWeatherFilters(Normalize(query[r])) THEN "loop" ELSE "count"]
    /\ nCount' = IF hasWeatherFilters(Normalize(query[r])) THEN nCount ELSE Bump(nCount, r)
    /\ stable' = [stable EXCEPT ![r] = CacheAgrees(cache, upstream, now)]
    /\ UNCHANGED <<pureVars, envVars, limiterVars, scanVars, query, response,
                   nFind, nFetch, nUpstream, nCacheSet>>

\* lines 55-60: the count arrived; the page query is issued
FastCount(r) ==
    /\ pc[r] = "count"
    /\ response' = [response EXCEPT ![r].total = Len(datastore)]
    /\ nFind' = Bump(nFind, r)
    /\ pc' = [pc EXCEPT ![r] = "page"]
    /\ UNCHANGED <<pureVars, envVars, limiterVars, scanVars, query, crit,
                   nCount, nFetch, nUpstream, nCacheSet, stable>>

\* findMany({skip, take}): the datastore client accepts whole numbers only
\* and rejects the call otherwise
SkipTake(rows, skipHalves, take) ==
    IF skipHalves % PageDen = 0
    THEN [ok |-> TRUE, rows |-> Slice(rows, skipHalves \div PageDen, (skipHalves \div PageDen) + take)]
    ELSE [ok |-> FALSE, rows |-> <<>>]

\* lines 56-68 and 173-176: the page arrived and is returned as it is
FastFind(r) ==
    /\ pc[r] = "page"
    /\ LET found == SkipTake(datastore, PageStart(crit[r]), crit[r].take)
           total == response[r].total
       IN response' = [response EXCEPT ![r] =
              IF found.ok
              THEN Ok(found.rows, crit[r].page, crit[r].take, total,
                      PageEnd(crit[r]) < total * PageDen)
              ELSE InternalError]
    /\ pc' = [pc EXCEPT ![r] = "done"]
    /\ UNCHANGED <<pureVars, envVars, limiterVars, scanVars, query, crit, countVars, stable>>

\* the loop runs on although the page is covered
PageUncovered_Always(len, c) == TRUE

\* the page number left out of the loop condition
PageUncovered_TakeOnly(len, c) == len < c.take

\* line 77: filtered.length < page * take
PageUncovered(len, c) == len * PageDen < PageEnd(c)

\* line 77: the loop condition; when it holds the next batch query is issued
LoopTest(r) ==
    /\ pc[r] = "loop"
    /\ IF hasMore[r] /\ PageUncovered(Len(filtered[r]), crit[r])
       THEN /\ pc' = [pc EXCEPT ![r] = "query"]
            /\ nFind' = Bump(nFind, r)
       ELSE /\ pc' = [pc EXCEPT ![r] = "paginate"]
            /\ nFind' = nFind
    /\ UNCHANGED <<pureVars, envVars, limiterVars, scanVars, query, crit, response,
                   nCount, nFetch, nUpstream, nCacheSet, stable>>

\* lines 78-103: the batch arrived
DbReply(r) ==
    /\ pc[r] = "query"
    /\ LET batch == Slice(datastore, totalChecked[r], totalChecked[r] + BATCH_SIZE)
           withCoords == SelectSeq(batch, HasCoords)
       IN /\ dbBatch' = [dbBatch EXCEPT ![r] = batch]
          /\ IF Len(batch) = 0
             THEN /\ hasMore' = [hasMore EXCEPT ![r] = FALSE]
                  /\ pc' = [pc EXCEPT ![r] = "paginate"]
                  /\ UNCHANGED <<totalChecked, limiterVars, nFetch, nUpstream>>
             ELSE /\ totalChecked' = [totalChecked EXCEPT ![r] = @ + Len(batch)]
                  /\ hasMore' = hasMore
                  /\ IF Len(withCoords) = 0
                     THEN /\ pc' = [pc EXCEPT ![r] = "loop"]
                          /\ UNCHANGED <<limiterVars, nFetch, nUpstream>>
                     ELSE /\ pc' = [pc EXCEPT ![r] = "fetch"]
                          /\ \E queued \in {Enqueue(Limiter, r, ToFetchSeq(withCoords))} :
                                \E pumped \in {Pump(queued, now)} : SetLimiter(pumped)
    /\ UNCHANGED <<pureVars, envVars, filtered, query, crit, response, nCount, nFind, nCacheSet, stable>>

\* part_001 lines 57-113 and 137-153: the upstream call of task i of request r
\* ended; the task settles, frees its slot and the limiter starts the next ones
UpstreamReply(r, i) ==
    /\ pc[r] = "fetch"
    /\ i \in DOMAIN call[r]
    /\ call[r][i].st = "inflight"
    /\ LET p == call[r][i].p
           key == cacheKey(p.lat, p.lng)
           data == upstream[key]
           result == ComposeResult(data, now)
           settled == IF data.ok THEN SettleOk(p, result) ELSE SettleFailed(p, FetchFailed)
           after == [Limiter EXCEPT !.call[r][i] = settled,
                                    !.active = activeCount - 1,
                                    !.cache = CacheAfterFetch(cache, key, data, result, now)]
       IN /\ \E settledIn \in {after} :
                \E pumped \in {Pump(settledIn, now)} : SetLimiter(pumped)
          /\ nCacheSet' = IF data.ok THEN Bump(nCacheSet, r) ELSE nCacheSet
    /\ UNCHANGED <<pureVars, envVars, scanVars, query, pc, crit, response, nCount, nFind, stable>>

\* a full batch taken for the last one
ShortBatch_OffByOne(batch) == Len(batch) <= BATCH_SIZE

\* line 155: fewer rows than the batch size were returned
ShortBatch(batch) == Len(batch) < BATCH_SIZE

\* lines 103-157: every task settled; filter the batch and append to the accumulator
Join(r) ==
    /\ pc[r] = "fetch"
    /\ \A i \in DOMAIN call[r] : Settled(call[r][i])
    /\ IF \E i \in DOMAIN call[r] : call[r][i].st = "rejected"
       THEN /\ response' = [response EXCEPT ![r] = InternalError]
            /\ pc' = [pc EXCEPT ![r] = "done"]
            /\ UNCHANGED <<filtered, hasMore>>
       ELSE LET propsWithWeather == Results(call[r])
                batchFiltered == SelectSeq(propsWithWeather, LAMBDA e : Passes(e.weather, crit[r]))
            IN /\ filtered' = [filtered EXCEPT ![r] = @ \o MapSeq(dbBatch[r], batchFiltered)]
               /\ hasMore' = [hasMore EXCEPT ![r] = IF ShortBatch(dbBatch[r]) THEN FALSE ELSE @]
               /\ pc' = [pc EXCEPT ![r] = "loop"]
               /\ response' = response
    /\ call' = [call EXCEPT ![r] = <<>>]
    /\ UNCHANGED <<pureVars, envVars, cache, queue, activeCount, totalChecked, dbBatch, query, crit,
                   countVars, stable>>

\* lines 160-172: slice the accumulator
Paginate(r) ==
    /\ pc[r] = "paginate"
    /\ LET total == Len(filtered[r])
           start == PageStart(crit[r])
           end == start + crit[r].take * PageDen
       IN response' = [response EXCEPT ![r] =
              Ok(Slice(filtered[r], start \div PageDen, end \div PageDen),
                 crit[r].page, crit[r].take, total, end < total * PageDen)]
    /\ pc' = [pc EXCEPT ![r] = "done"]
    /\ UNCHANGED <<pureVars, envVars, limiterVars, scanVars, query, crit, countVars, stable>>

----------------------------------------------------------------------------
(* The environment *)

Tick ==
    /\ now < MaxNow
    /\ now' = now + 1
    /\ stable' = [r \in Requests |->
                     stable[r] /\ (Running(r) => SameWeather(upstream, now, upstream, now + 1))]
    /\ UNCHANGED <<pureVars, datastore, upstream, changes, limiterVars, scanVars, query, pc, crit,
                   response, countVars>>

\* node-cache's periodic check
Sweep ==
    /\ CacheSweep(cache, now) # cache
    /\ cache' = CacheSweep(cache, now)
    /\ UNCHANGED <<pureVars, envVars, queue, activeCount, call, scanVars, query, pc, crit, response,
                   countVars, stable>>

\* the weather of one cell changes, or its fetches begin or cease to fail
UpstreamChanges(k, reply) ==
    /\ changes < MaxChanges
    /\ upstream[k] # reply
    /\ upstream' = [upstream EXCEPT ![k] = reply]
    /\ changes' = changes + 1
    /\ stable' = [r \in Requests |-> stable[r] /\ ~Running(r)]
    /\ UNCHANGED <<pureVars, datastore, now, limiterVars, scanVars, query, pc, crit, response, countVars>>

----------------------------------------------------------------------------
(* The specifications *)

PlaceChoices == {NoCoords, PlaceA, PlaceB}

\* every datastore of at most MaxRows rows; the id of a row is its position
Datastores ==
    UNION {{[i \in 1..n |-> Row(i, f[i])] : f \in [1..n -> PlaceChoices]} : n \in 0..MaxRows}

Queries ==
    {Paged(NoQuery, 1, 2), Paged(NoQuery, 1, 3), Temperate,
     Paged(Temperate, 1, 2), Paged(Temperate, 1, 3), Paged(Temperate, 2, 2),
     Paged(ClearSky, 1, 4)}

InitRequests(active) ==
    /\ pc = [r \in Requests |-> IF r \in active THEN "idle" ELSE "off"]
    /\ crit = [r \in Requests |-> Normalize(NoQuery)]
    /\ filtered = [r \in Requests |-> <<>>]
    /\ totalChecked = [r \in Requests |-> 0]
    /\ hasMore = [r \in Requests |-> TRUE]
    /\ dbBatch = [r \in Requests |-> <<>>]
    /\ call = [r \in Requests |-> <<>>]
    /\ response = [r \in Requests |-> NoResponse]
    /\ nCount = [r \in Requests |-> 0]
    /\ nFind = [r \in Requests |-> 0]
    /\ nFetch = [r \in Requests |-> 0]
    /\ nUpstream = [r \in Requests |-> 0]
    /\ nCacheSet = [r \in Requests |-> 0]
    /\ stable = [r \in Requests |-> FALSE]

InitProcess ==
    /\ fnArg = None
    /\ fnOut = None
    /\ changes = 0
    /\ now = 0
    /\ cache = <<>>
    /\ queue = <<>>
    /\ activeCount = 0

\* one request against every datastore
Init ==
    /\ datastore \in Datastores
    /\ upstream \in [Cells -> Replies]
    /\ \E q \in Queries : query = [r \in Requests |-> q]
    /\ InitProcess
    /\ InitRequests({1})

Next ==
    \/ \E r \in Requests : Start(r)
    \/ \E r \in Requests : FastCount(r)
    \/ \E r \in Requests : FastFind(r)
    \/ \E r \in Requests : LoopTest(r)
    \/ \E r \in Requests : DbReply(r)
    \/ \E r \in Requests : \E i \in 1..BATCH_SIZE : UpstreamReply(r, i)
    \/ \E r \in Requests : Join(r)
    \/ \E r \in Requests : Paginate(r)
    \/ Tick
    \/ Sweep
    \/ \E k \in Cells : \E reply \in Replies : UpstreamChanges(k, reply)

Spec == Init /\ [][Next]_vars

\* two requests at once against a datastore whose rows share cache cells
Rows(places) == [i \in 1..Len(places) |-> Row(i, places[i])]

ConcDatastores == {Rows(<<PlaceB, PlaceC>>), Rows(<<PlaceA, NoCoords, PlaceA>>)}

ConcQueries == {Paged(Temperate, 2, 2), Paged(NoQuery, 1, 2)}

InitConc ==
    /\ datastore \in ConcDatastores
    /\ upstream \in [Cells -> {Failure, Mild}]
    /\ \E q \in ConcQueries :
          query = [r \in Requests |-> IF r = 1 THEN Paged(Temperate, 2, 2) ELSE q]
    /\ InitProcess
    /\ InitRequests(Requests)

SpecConc == InitConc /\ [][Next]_vars

\* one request per single criterion, against replies that lack values
FilterDatastores == {Rows(<<PlaceA, NoCoords, PlaceB>>), Rows(<<NoCoords, NoCoords, PlaceA>>)}

FilterQueries ==
    {NoQuery,
     [NoQuery EXCEPT !.tempMin = Num(20)],
     [NoQuery EXCEPT !.tempMax = Num(20)],
     [NoQuery EXCEPT !.humMin = Num(60)],
     [NoQuery EXCEPT !.humMax = Num(60)],
     ClearSky}

InitFilter ==
    /\ datastore \in FilterDatastores
    /\ upstream \in [Cells -> {Failure, Mild, Wet, Bare}]
    /\ \E q \in FilterQueries : query = [r \in Requests |-> q]
    /\ InitProcess
    /\ InitRequests({1})

SpecFilter == InitFilter /\ [][Next]_vars

\* the process at rest: nothing but the pure functions is exercised
InitIdle ==
    /\ datastore = <<>>
    /\ upstream = [k \in Cells |-> Failure]
    /\ query = [r \in Requests |-> NoQuery]
    /\ changes = 0
    /\ now = 0
    /\ cache = <<>>
    /\ queue = <<>>
    /\ activeCount = 0
    /\ InitRequests({})

Idle == UNCHANGED <<envVars, limiterVars, scanVars, countVars, query, pc, crit, response, stable>>

\* cacheKey applied to two coordinate pairs
Coords == (0 - MaxCoord)..MaxCoord
KeyArgs == [lat : Coords, lng : {0, 5}]

InitKey ==
    /\ fnArg \in KeyArgs \X KeyArgs
    /\ fnOut = None
    /\ InitIdle

ApplyCacheKey ==
    /\ fnOut = None
    /\ fnOut' = Some(<<cacheKey(fnArg[1].lat, fnArg[1].lng), cacheKey(fnArg[2].lat, fnArg[2].lng)>>)
    /\ fnArg' = fnArg
    /\ Idle

NextKey == ApplyCacheKey

SpecKey == InitKey /\ [][NextKey]_vars

\* every sequence of at most n elements of S
SeqsUpTo(S, n) == UNION {[1..m -> S] : m \in 0..n}

\* fetchWeather's extraction applied to an upstream reply at a time `at`:
\* samples at t-10, t and t+20 for t = 10, read at t+1 and midway between two
Stamps == {Stamp("ok", 0), Stamp("ok", 10), Stamp("ok", 30), Stamp("needsZ", 10), Stamp("bad", 0)}
\* the i-th humidity is missing or 40, 55, 70, ... by position
HumidityAt(i) == {None, Some(25 + (15 * i))}
HumiditySeries(n) ==
    UNION {{h \in [1..m -> {None} \cup {Some(25 + (15 * i)) : i \in 1..n}] :
               \A i \in 1..m : h[i] \in HumidityAt(i)} : m \in 0..n}
ReadTimes == {5, 11}
HumidityArgs ==
    [data : {Reply(cw, time, hum) :
                cw \in {None, Current(Some(15), Some(0))},
                time \in SeqsUpTo(Stamps, MaxSeries),
                hum \in HumiditySeries(MaxSeries)},
     at : ReadTimes]

InitCompose ==
    /\ fnArg \in HumidityArgs
    /\ fnOut = None
    /\ InitIdle

ApplyComposeResult ==
    /\ fnOut = None
    /\ fnOut' = Some(ComposeResult(fnArg.data, fnArg.at))
    /\ fnArg' = fnArg
    /\ Idle

NextCompose == ApplyComposeResult

SpecCompose == InitCompose /\ [][NextCompose]_vars

\* getWeatherGroupLabel applied to every code, and to an absent one
Codes == {None} \cup {Some(n) : n \in 0..MaxCode}

InitLabel ==
    /\ fnArg \in Codes
    /\ fnOut = None
    /\ InitIdle

\* the result is wrapped, as it may itself be None
ApplyGetWeatherGroupLabel ==
    /\ fnOut = None
    /\ fnOut' = Some(getWeatherGroupLabel(fnArg))
    /\ fnArg' = fnArg
    /\ Idle

NextLabel == ApplyGetWeatherGroupLabel

SpecLabel == InitLabel /\ [][NextLabel]_vars

\* matchesWeatherGroup applied to a code and a list of names, as it is and
\* as parseWeatherGroups leaves it; 45 (fog) lies in no group, "fog" is no group
Tokens == {"clear", "rainy", "fog"}
MatchArgs ==
    [code : {None, Some(0), Some(61), Some(45)}, groups : SeqsUpTo(Tokens, MaxTokens)]

InitMatch ==
    /\ fnArg \in MatchArgs
    /\ fnOut = None
    /\ InitIdle

ApplyMatchesWeatherGroup ==
    /\ fnOut = None
    /\ fnOut' = Some([direct |-> matchesWeatherGroup(fnArg.code, fnArg.groups),
                      parsed |-> matchesWeatherGroup(fnArg.code,
                                     parseWeatherGroups(WeatherParam(fnArg.groups)))])
    /\ fnArg' = fnArg
    /\ Idle

NextMatch == ApplyMatchesWeatherGroup

SpecMatch == InitMatch /\ [][NextMatch]_vars

\* the normalization applied to query values that are missing, malformed,
\* negative, fractional (take and page count halves) or out of range
RawQueries ==
    [tempMin : {Missing, Bad, Num(-30), Num(15), Num(60)},
     tempMax : {Missing, Num(-30), Num(60)},
     humMin : {Missing, Num(-5), Num(150)},
     humMax : {Missing, Bad, Num(50)},
     take : {Missing, Bad, Num(-2), Num(0), Num(1), Num(2), Num(3), Num(1000)},
     page : {Missing, Bad, Num(-2), Num(1), Num(2), Num(3), Num(4)},
     weather : {NoWeather}]

InitNormalize ==
    /\ fnArg \in RawQueries
    /\ fnOut = None
    /\ InitIdle

ApplyNormalize ==
    /\ fnOut = None
    /\ fnOut' = Some(Normalize(fnArg))
    /\ fnArg' = fnArg
    /\ Idle

NextNormalize == ApplyNormalize

SpecNormalize == InitNormalize /\ [][NextNormalize]_vars

\* a step of the handler of request r, or of one of its fetches
HandlerStep(r) ==
    \/ Start(r)
    \/ FastCount(r)
    \/ FastFind(r)
    \/ LoopTest(r)
    \/ DbReply(r)
    \/ \E i \in 1..BATCH_SIZE : UpstreamReply(r, i)
    \/ Join(r)
    \/ Paginate(r)

\* Every suspended handler is resumed and every upstream call ends (the call
\* carries a timeout); the clock and the provider owe nothing.
Fairness == \A r \in Requests : WF_vars(HandlerStep(r))

\* the datastores of MaxRows rows, each with or without coordinates
LiveDatastores ==
    {[i \in 1..MaxRows |-> Row(i, f[i])] : f \in [1..MaxRows -> {NoCoords, PlaceA}]}

LiveQueries == {Paged(NoQuery, 1, 2), Temperate, Paged(Temperate, 1, 2)}

InitLive ==
    /\ datastore \in LiveDatastores
    /\ \E reply \in {Failure, Mild} : upstream = [k \in Cells |-> reply]
    /\ \E q \in LiveQueries : query = [r \in Requests |-> q]
    /\ InitProcess
    /\ InitRequests({1})

LiveSpec == InitLive /\ [][Next]_vars /\ Fairness

----------------------------------------------------------------------------
(* The filtered path against the whole datastore *)

Filtering(r) == hasWeatherFilters(crit[r])

\* the rows of the whole datastore, in scan order, that a fresh fetch of
\* their weather lets through the predicate of request r
Matching(r) ==
    LET Lets(row) ==
            /\ HasCoords(row)
            /\ upstream[KeyOf(row)].ok
            /\ Passes(Some(ComposeResult(upstream[KeyOf(row)], now)), crit[r])
    IN SelectSeq(datastore, Lets)

RECURSIVE Bases(_)
Bases(data) == IF data = <<>> THEN <<>> ELSE <<Head(data).base>> \o Bases(Tail(data))

\* a request on the filtered path has answered, and the weather was stable for it
AnsweredStable(r) == pc[r] = "done" /\ Filtering(r) /\ stable[r]

\* C1: with stable weather, the data returned on the filtered path is the
\* slice [(page-1)*take, page*take) of the rows of the whole datastore that
\* pass the weather predicate, in scan order, and it has exactly `take` rows
\* whenever page*take such rows exist.
C1_PageIsSliceOfAllMatches ==
    \A r \in Requests :
        AnsweredStable(r) =>
            LET first == PageStart(crit[r]) \div PageDen
            IN /\ response[r].status = 200
               /\ Bases(response[r].data) = Slice(Matching(r), first, first + crit[r].take)
               /\ (Len(Matching(r)) * PageDen >= PageEnd(crit[r]) =>
                       Len(response[r].data) = crit[r].take)

\* a second page was returned after a second batch had to be scanned
C1_Witness ==
    \E r \in Requests :
        /\ AnsweredStable(r)
        /\ PageStart(crit[r]) > 0
        /\ nFind[r] >= 2
        /\ Len(response[r].data) = crit[r].take

----------------------------------------------------------------------------
(* The scan loop *)

Scanning(r) == pc[r] \in {"loop", "query", "fetch"}
Covered(r) == Len(filtered[r]) * PageDen >= PageEnd(crit[r])

\* C2: once a batch query has returned fewer rows than the scan size, the
\* request issues no further batch query: a batch query in flight that is
\* not the first follows a full batch.
C2_NoQueryAfterShortBatch ==
    \A r \in Requests :
        (pc[r] = "query" /\ nFind[r] >= 2) => Len(dbBatch[r]) = BATCH_SIZE

\* C3: the scan loop terminates; when it has, the accumulator covers the
\* page or the last batch was short; and no batch query is in flight while
\* the accumulator covers the page.
C3_ScanTerminates ==
    /\ \A r \in Requests : Scanning(r) ~> (pc[r] = "paginate")
    /\ [](\A r \in Requests :
            pc[r] = "paginate" => (Covered(r) \/ Len(dbBatch[r]) < BATCH_SIZE))
    /\ [](\A r \in Requests : pc[r] = "query" => ~Covered(r))

\* the loop ended on an exhausted source, after more than one batch and
\* without covering the page
C3_Witness ==
    \E r \in Requests :
        /\ pc[r] = "paginate"
        /\ ~Covered(r)
        /\ nFind[r] >= 2
        /\ Len(dbBatch[r]) < BATCH_SIZE

----------------------------------------------------------------------------
(* The reported total and the fast path *)

\* C4: on the filtered path the reported total is the number of rows in the
\* accumulator; with stable weather it never exceeds the number of rows of
\* the datastore that pass the predicate, and it equals that number when
\* the scan ended on an exhausted source.
C4_TotalIsLowerBound ==
    \A r \in Requests :
        (pc[r] = "done" /\ Filtering(r)) =>
            /\ response[r].total = Len(filtered[r])
            /\ stable[r] => response[r].total <= Len(Matching(r))
            /\ (stable[r] /\ ~hasMore[r]) => response[r].total = Len(Matching(r))

\* the scan stopped early and the total undercounts
C4_Witness ==
    \E r \in Requests :
        /\ AnsweredStable(r)
        /\ hasMore[r]
        /\ response[r].total > 0
        /\ response[r].total < Len(Matching(r))

\* C5: without any weather filter the request does one count and one
\* skip/take query, returns that page as it is, and does no weather fetch:
\* no limiter slot, no upstream call, no cache write.
C5_FastPathReturnsPage ==
    \A r \in Requests :
        (pc[r] = "done" /\ ~Filtering(r)) =>
            /\ nCount[r] = 1
            /\ nFind[r] = 1
            /\ response[r].status = 200
            /\ response[r].data =
                 Slice(datastore, PageStart(crit[r]) \div PageDen,
                       (PageStart(crit[r]) \div PageDen) + crit[r].take)
            /\ response[r].total = Len(datastore)
            /\ nFetch[r] = 0
            /\ nUpstream[r] = 0
            /\ nCacheSet[r] = 0

----------------------------------------------------------------------------
(* The bulk fetcher *)

\* fetchWeatherForProperties of request r is about to return
AllSettled(r) == pc[r] = "fetch" /\ \A i \in DOMAIN call[r] : Settled(call[r][i])

\* the list it was called with
Props(r) == ToFetchSeq(SelectSeq(dbBatch[r], HasCoords))

\* C6: the list fetchWeatherForProperties returns has the length of its
\* input and its i-th entry carries the id, lat and lng of the i-th input,
\* in whatever order the fetches ended.
C6_OneEntryPerInputInOrder ==
    \A r \in Requests :
        AllSettled(r) =>
            /\ Len(Results(call[r])) = Len(Props(r))
            /\ \A i \in 1..Len(Props(r)) :
                  /\ Results(call[r])[i].id = Props(r)[i].id
                  /\ Results(call[r])[i].lat = Props(r)[i].lat
                  /\ Results(call[r])[i].lng = Props(r)[i].lng

\* the fetch of the first input ended after the fetch of the second
C6_Witness ==
    \E r \in Requests :
        /\ AllSettled(r)
        /\ Len(call[r]) = 2
        /\ IsNum(call[r][1].res.weather)
        /\ IsNum(call[r][2].res.weather)
        /\ Val(call[r][1].res.weather).fetchedAt > Val(call[r][2].res.weather).fetchedAt

\* the rows among the first n of the datastore that the predicate of r lets through
MatchingAmong(n, r) ==
    LET Lets(row) ==
            /\ HasCoords(row)
            /\ upstream[KeyOf(row)].ok
            /\ Passes(Some(ComposeResult(upstream[KeyOf(row)], now)), crit[r])
    IN SelectSeq(SubSeq(datastore, 1, n), Lets)

\* C7: a failed upstream call leaves its own entry with no weather and a
\* non-empty weatherError and nothing else: no task rejects, a fetch whose
\* own upstream call succeeds carries its weather, the request answers 200,
\* and the accumulator holds exactly the scanned rows whose own weather
\* passes the predicate.
C7_FailureStaysLocal ==
    \A r \in Requests :
        /\ \A i \in DOMAIN call[r] :
              /\ call[r][i].st # "rejected"
              /\ Settled(call[r][i]) =>
                    LET e == call[r][i].res
                        up == upstream[cacheKey(e.lat, e.lng)]
                    IN /\ (e.weather = None) <=> (e.weatherError # None)
                       /\ e.weatherError # None => Val(e.weatherError) # ""
                       /\ stable[r] => ((e.weather = None) <=> ~up.ok)
                       /\ (stable[r] /\ up.ok) =>
                              SameReading(Val(e.weather), ComposeResult(up, now))
        /\ (pc[r] = "done" /\ Filtering(r)) => response[r].status = 200
        /\ (stable[r] /\ Filtering(r) /\ pc[r] \in {"loop", "query", "paginate", "done"}) =>
              Bases(filtered[r]) = MatchingAmong(totalChecked[r], r)

\* in one batch a fetch failed and a sibling's row passed into the accumulator
C7_Witness ==
    \E r \in Requests :
        /\ stable[r]
        /\ pc[r] = "loop"
        /\ Len(dbBatch[r]) = 2
        /\ HasCoords(dbBatch[r][1])
        /\ HasCoords(dbBatch[r][2])
        /\ ~upstream[KeyOf(dbBatch[r][1])].ok
        /\ Len(filtered[r]) > 0
        /\ filtered[r][Len(filtered[r])].base = dbBatch[r][2]

----------------------------------------------------------------------------
(* The limiter and the cache *)

InFlightTasks ==
    {t \in Requests \X (1..BATCH_SIZE) :
        t[2] \in DOMAIN call[t[1]] /\ call[t[1]][t[2]].st = "inflight"}

\* C8: at most CONCURRENCY upstream calls are in flight, over all requests.
C8_InFlightBounded == Cardinality(InFlightTasks) <= CONCURRENCY

\* the limiter is full while a task waits
C8_Witness == Cardinality(InFlightTasks) = CONCURRENCY /\ queue # <<>>

\* the entry of the key was stored by a fetch no longer than the TTL ago
WithinTTL(c, key, at) == key \in DOMAIN c /\ at - c[key].v.fetchedAt <= CACHE_TTL_SECONDS

\* task i of request r runs fetchWeather's lookup in this step
StartedNow(r, i) ==
    /\ i \in DOMAIN call'[r]
    /\ call'[r][i].st # "queued"
    /\ (i \in DOMAIN call[r] => call[r][i].st = "queued")

\* C9: a fetchWeather call issues an upstream call exactly when the cache
\* holds no entry for its key that is within the TTL at the lookup; a hit
\* returns the stored result; and an entry within its TTL is never dropped
\* (it is only ever replaced by the result of a fresh successful fetch).
C9_UpstreamIffNoFreshEntry ==
    [][/\ \A r \in Requests : \A i \in 1..BATCH_SIZE :
            StartedNow(r, i) =>
                LET key == cacheKey(call'[r][i].p.lat, call'[r][i].p.lng)
                IN IF WithinTTL(cache', key, now')
                   THEN /\ call'[r][i].st = "fulfilled"
                        /\ call'[r][i].res.weather = Some(cache'[key].v)
                   ELSE call'[r][i].st = "inflight"
       /\ \A r \in Requests :
            nUpstream'[r] - nUpstream[r] =
                Cardinality({i \in 1..BATCH_SIZE : StartedNow(r, i) /\ call'[r][i].st = "inflight"})
       /\ \A k \in DOMAIN cache :
            WithinTTL(cache, k, now') =>
                /\ k \in DOMAIN cache'
                /\ cache'[k] = cache[k] \/ cache'[k].v.fetchedAt = now'
      ]_vars

\* a request was served from the cache, and the entry of a row it returned
\* has since expired and been fetched again
C9_Witness ==
    \E r \in Requests :
        /\ pc[r] = "done"
        /\ nFetch[r] > nUpstream[r]
        /\ \E n \in 1..Len(response[r].data) :
              LET d == response[r].data[n]
              IN /\ KeyOf(d.base) \in DOMAIN cache
                 /\ cache[KeyOf(d.base)].v.fetchedAt - d.weather.fetchedAt > CACHE_TTL_SECONDS

----------------------------------------------------------------------------
(* The cache key *)

\* the coordinates x and y have the same sign and the same digits up to the
\* fourth decimal
SameThrough4(x, y) ==
    /\ (x < 0) = (y < 0)
    /\ Abs(x) \div CoordUnit = Abs(y) \div CoordUnit

\* the digits beyond the fourth lie on the same side of the rounding midpoint
SameSide(x, y) ==
    (Abs(x) % CoordUnit >= CoordUnit \div 2) = (Abs(y) % CoordUnit >= CoordUnit \div 2)

AgreeThrough4(a, b) == SameThrough4(a.lat, b.lat) /\ SameThrough4(a.lng, b.lng)
RoundAlike(a, b) == SameSide(a.lat, b.lat) /\ SameSide(a.lng, b.lng)

\* C10 as stated: two coordinates get the same cache key exactly when they
\* differ only beyond the fourth decimal digit.
C10_SameKeyIffSameThrough4 ==
    fnOut # None =>
        ((Val(fnOut)[1] = Val(fnOut)[2]) <=> AgreeThrough4(fnArg[1], fnArg[2]))

\* C10 as amended: when the digits beyond the fourth lie on the same side of
\* the rounding midpoint in both coordinates, they get the same cache key
\* exactly when they differ only beyond the fourth decimal digit.
C10_SameKeyIffSameThrough4WhenRoundedAlike ==
    (fnOut # None /\ RoundAlike(fnArg[1], fnArg[2])) =>
        ((Val(fnOut)[1] = Val(fnOut)[2]) <=> AgreeThrough4(fnArg[1], fnArg[2]))

\* two different coordinates that differ only beyond the fourth digit got one key
C10_Witness ==
    /\ fnOut # None
    /\ fnArg[1] # fnArg[2]
    /\ RoundAlike(fnArg[1], fnArg[2])
    /\ AgreeThrough4(fnArg[1], fnArg[2])
    /\ Val(fnOut)[1] = Val(fnOut)[2]

----------------------------------------------------------------------------
(* The humidity sample *)

\* the hourly series gives no sample to choose from
Degenerate(data) ==
    \/ Len(data.time) = 0
    \/ Len(data.hum) = 0
    \/ Len(data.time) # Len(data.hum)
    \/ \A i \in 1..Len(data.time) : ~Parses(data.time[i])

\* C11: when the hourly series is empty, has lists of different lengths or
\* has no timestamp that parses, the composed result has no humidity and
\* carries the temperature and the weather code of the reply.
C11_DegenerateSeriesGivesNoHumidity ==
    (fnOut # None /\ Degenerate(fnArg.data)) =>
        /\ Val(fnOut).humidity = None
        /\ Val(fnOut).temperature =
              (IF fnArg.data.cw = None THEN None ELSE Val(fnArg.data.cw).temperature)
        /\ Val(fnOut).weathercode =
              (IF fnArg.data.cw = None THEN None ELSE Val(fnArg.data.cw).weathercode)

\* sample i parses and no parsable sample is nearer to `at`, nor an earlier one as near
Nearest(data, at, i) ==
    /\ Parses(data.time[i])
    /\ \A j \in 1..Len(data.time) :
          Parses(data.time[j]) =>
              /\ Abs(at - data.time[i].t) <= Abs(at - data.time[j].t)
              /\ j < i => Abs(at - data.time[i].t) < Abs(at - data.time[j].t)

\* C12: when the lists have equal length and some timestamp parses, the
\* humidity of the result is that of the parsable sample nearest to the
\* current time, the earliest of them on a tie.
C12_NearestParsableSample ==
    (/\ fnOut # None
     /\ Len(fnArg.data.time) = Len(fnArg.data.hum)
     /\ \E i \in 1..Len(fnArg.data.time) : Parses(fnArg.data.time[i])) =>
        \E i \in 1..Len(fnArg.data.time) :
            /\ Nearest(fnArg.data, fnArg.at, i)
            /\ Val(fnOut).humidity = fnArg.data.hum[i]

\* samples at t-10, t, t+20 with humidities 40, 55, 70, read at t+1, gave 55
C12_Witness ==
    /\ fnOut # None
    /\ fnArg.at = 11
    /\ fnArg.data.time = <<Stamp("ok", 0), Stamp("ok", 10), Stamp("ok", 30)>>
    /\ fnArg.data.hum = <<Some(40), Some(55), Some(70)>>
    /\ Val(fnOut).humidity = Some(55)

----------------------------------------------------------------------------
(* The weather predicate *)

\* the optional value is present and lies on the right side of the bound
AtLeast(x, bound) == x # None /\ Val(x) >= bound
AtMost(x, bound) == x # None /\ Val(x) <= bound

\* the fetched weather w (None when the fetch failed) meets the criteria c
Satisfies(w, c) ==
    /\ w # None
    /\ c.tempMin # None => AtLeast(Val(w).temperature, Val(c.tempMin))
    /\ c.tempMax # None => AtMost(Val(w).temperature, Val(c.tempMax))
    /\ c.humMin # None => AtLeast(Val(w).humidity, Val(c.humMin))
    /\ c.humMax # None => AtMost(Val(w).humidity, Val(c.humMax))
    /\ c.weatherGroups # <<>> =>
          /\ Val(w).weathercode # None
          /\ \E n \in 1..Len(c.weatherGroups) :
                Val(Val(w).weathercode) \in WeatherGroups[c.weatherGroups[n]]

\* the rows of the batch of request r that have coordinates and whose own
\* fetch, as it settled, meets the criteria
Entering(r) ==
    LET Enters(row) ==
            /\ row.lat # None
            /\ row.lng # None
            /\ \E i \in DOMAIN call[r] :
                  /\ call[r][i].res.id = row.id
                  /\ Satisfies(call[r][i].res.weather, crit[r])
    IN SelectSeq(dbBatch[r], Enters)

\* C13: when the fetches of a batch have settled, the rows appended to the
\* accumulator are exactly the rows of the batch that have coordinates,
\* whose fetch succeeded, whose values meet every supplied bound (a missing
\* value fails) and, when groups are requested, whose code is a number of
\* a requested group; no other step changes the accumulator.
C13_RowEntersIffPredicate ==
    [][\A r \in Requests :
          IF AllSettled(r) /\ pc'[r] # "fetch"
          THEN Bases(filtered'[r]) = Bases(filtered[r]) \o Entering(r)
          ELSE filtered'[r] = filtered[r]
      ]_vars

\* a humidity bound was supplied: of three scanned rows the one without
\* humidity and the one without coordinates stayed out, the third entered
C13_Witness ==
    \E r \in Requests :
        /\ pc[r] = "paginate"
        /\ stable[r]
        /\ crit[r].humMax # None
        /\ totalChecked[r] = 3
        /\ \E i, j, k \in 1..3 :
              /\ datastore[i].lat = None
              /\ datastore[j].lat # None /\ upstream[KeyOf(datastore[j])] = Bare
              /\ datastore[k].lat # None /\ upstream[KeyOf(datastore[k])] = Mild
              /\ Bases(filtered[r]) = <<datastore[k]>>

----------------------------------------------------------------------------
(* The taxonomy *)

GroupNames == DOMAIN WeatherGroups

\* the groups whose code set has the code
GroupsOf(code) == {g \in GroupNames : code # None /\ Val(code) \in WeatherGroups[g]}

\* C14: the code sets of the groups are pairwise disjoint; the label of a
\* code that lies in a group's set is that one group, and the label of a
\* code in no set, or of an absent code, is none.
C14_LabelIsTheOneGroup ==
    /\ \A g, h \in GroupNames : g # h => WeatherGroups[g] \cap WeatherGroups[h] = {}
    /\ fnOut # None =>
          /\ Cardinality(GroupsOf(fnArg)) <= 1
          /\ \A g \in GroupsOf(fnArg) : Val(fnOut) = Some(g)
          /\ GroupsOf(fnArg) = {} => Val(fnOut) = None

\* code 86, the last of the snow codes, was labelled snow
C14_Witness == fnOut # None /\ fnArg = Some(86) /\ Val(fnOut) = Some("snow")

\* the known group names among the requested ones
KnownAmong(groups) == {groups[i] : i \in 1..Len(groups)} \cap GroupNames

\* what the match of a code against requested names is to be
ExpectedMatch(code, groups) ==
    IF KnownAmong(groups) = {} THEN TRUE
    ELSE IF code = None THEN FALSE
    ELSE \E g \in KnownAmong(groups) : Val(code) \in WeatherGroups[g]

\* C15: the match is true when no known group name is requested; otherwise
\* it is false for an absent code and else true exactly when the code lies
\* in a known requested group; the same holds once parseWeatherGroups has
\* dropped the unknown names.
C15_MatchesKnownRequestedGroup ==
    fnOut # None =>
        /\ Val(fnOut).direct = ExpectedMatch(fnArg.code, fnArg.groups)
        /\ Val(fnOut).parsed = ExpectedMatch(fnArg.code, fnArg.groups)

\* only an unknown name was requested and an absent code matched
C15_Witness ==
    /\ fnOut # None
    /\ fnArg.code = None
    /\ fnArg.groups = <<"fog">>
    /\ Val(fnOut).direct

----------------------------------------------------------------------------
(* The normalization *)

\* the raw value is a finite number
Supplied(raw) == raw.t = "num"

\* the normalized bound is there exactly when the raw value is a number,
\* and then lies in [min, max]
BoundWithin(raw, bound, min, max) ==
    /\ (bound # None) <=> Supplied(raw)
    /\ bound # None => (Val(bound) >= min /\ Val(bound) <= max)

\* a number of halves that is a whole, non-negative row position
RowPosition(halves) == halves >= 0 /\ halves % PageDen = 0

\* C16: whatever the query values, the supplied temperature bounds lie in
\* [-20,50], the supplied humidity bounds in [0,100], pageSize is a whole
\* number in [1,200] (20 when absent or malformed), page is at least 1
\* (1 when absent or malformed), and the slice offsets (page-1)*pageSize and
\* page*pageSize are whole, non-negative row positions.
C16_NormalizedWithinRanges ==
    fnOut # None =>
        LET c == Val(fnOut)
        IN /\ BoundWithin(fnArg.tempMin, c.tempMin, -20, 50)
           /\ BoundWithin(fnArg.tempMax, c.tempMax, -20, 50)
           /\ BoundWithin(fnArg.humMin, c.humMin, 0, 100)
           /\ BoundWithin(fnArg.humMax, c.humMax, 0, 100)
           /\ c.take \in 1..200
           /\ ~Supplied(fnArg.take) => c.take = 20
           /\ c.page >= 1 * PageDen
           /\ ~Supplied(fnArg.page) => c.page = 1 * PageDen
           /\ RowPosition(PageStart(c))
           /\ RowPosition(PageEnd(c))

----------------------------------------------------------------------------
(* The order of the batches *)

\* the position in the datastore of the last row of the previous batch
ScannedThrough(r) == IF dbBatch[r] = <<>> THEN 0 ELSE dbBatch[r][Len(dbBatch[r])].id

\* a task of request r has not completed
Pending(r) ==
    \/ \E i \in DOMAIN call[r] : call[r][i].st \in {"queued", "inflight"}
    \/ \E n \in 1..Len(queue) : queue[n][1] = r

\* C17: a batch query is issued only from the loop test, when no fetch of
\* the request is pending and the accumulator holds rows of scanned batches
\* only; the batch that arrives is the run of rows right after the previous
\* batch, and its length is added to the offset; the handler leaves the
\* fetch of a batch only when every task has completed; and the accumulator
\* lists its rows in scan order, none twice.
C17_BatchesInSequence ==
    /\ [][\A r \in Requests :
            /\ (pc[r] # "query" /\ pc'[r] = "query") =>
                  /\ pc[r] = "loop"
                  /\ ~Pending(r)
                  /\ call[r] = <<>>
                  /\ totalChecked[r] = ScannedThrough(r)
                  /\ \A n \in 1..Len(filtered[r]) : filtered[r][n].base.id <= totalChecked[r]
            /\ (pc[r] = "query" /\ pc'[r] # "query") =>
                  /\ dbBatch'[r] = SubSeq(datastore, ScannedThrough(r) + 1,
                                          Min2(ScannedThrough(r) + BATCH_SIZE, Len(datastore)))
                  /\ totalChecked'[r] = ScannedThrough(r) + Len(dbBatch'[r])
            /\ (pc[r] = "fetch" /\ pc'[r] # "fetch") => ~Pending(r)
        ]_vars
    /\ [](\A r \in Requests : \A m, n \in 1..Len(filtered[r]) :
            m < n => filtered[r][m].base.id < filtered[r][n].base.id)

\* the query for a second batch is in flight and the accumulator holds a
\* row of the first
C17_Witness ==
    \E r \in Requests :
        /\ pc[r] = "query"
        /\ nFind[r] = 2
        /\ totalChecked[r] = BATCH_SIZE
        /\ Len(filtered[r]) >= 1

----------------------------------------------------------------------------
(* Writers of one cache key *)

\* the upstream call of task i of request r ends successfully in this step
FetchedNow(r, i) ==
    /\ i \in DOMAIN call[r]
    /\ call[r][i].st = "inflight"
    /\ i \in DOMAIN call'[r]
    /\ call'[r][i].st = "fulfilled"
    /\ call'[r][i].res.weather # None

\* C18: a fetch that missed the cache and whose upstream call succeeds
\* returns the result composed from its own reply, whatever other fetches
\* of the same key have stored meanwhile, and leaves that result in the
\* cache under its key, with a full TTL: the last writer's value stays.
C18_LastWriterWins ==
    [][\A r \in Requests : \A i \in 1..BATCH_SIZE :
          FetchedNow(r, i) =>
              LET key == cacheKey(call[r][i].p.lat, call[r][i].p.lng)
                  own == ComposeResult(upstream[key], now)
              IN /\ call'[r][i].res.weather = Some(own)
                 /\ key \in DOMAIN cache'
                 /\ cache'[key] = [v |-> own, t |-> now + CACHE_TTL_SECONDS]
      ]_vars

\* two fetches of one key both went upstream; the second ended later, each
\* holds its own result, and the cache holds the second's
C18_Witness ==
    \E r \in Requests :
        /\ AllSettled(r)
        /\ Len(call[r]) = 2
        /\ cacheKey(call[r][1].p.lat, call[r][1].p.lng) = cacheKey(call[r][2].p.lat, call[r][2].p.lng)
        /\ call[r][1].res.weather # None
        /\ call[r][2].res.weather # None
        /\ Val(call[r][1].res.weather).fetchedAt < Val(call[r][2].res.weather).fetchedAt
        /\ LET key == cacheKey(call[r][2].p.lat, call[r][2].p.lng)
           IN key \in DOMAIN cache /\ cache[key].v = Val(call[r][2].res.weather)

----------------------------------------------------------------------------
(* The next-page flag *)

\* C19: with stable weather, when the filtered path reports hasNextPage =
\* false, no row of the datastore that passes the predicate lies after the
\* returned page: the matching rows number at most page * take.
C19_NoNextPageMeansNoMoreMatches ==
    \A r \in Requests :
        (AnsweredStable(r) /\ response[r].status = 200 /\ ~response[r].hasNextPage) =>
            Len(Matching(r)) * PageDen <= PageEnd(crit[r])

----------------------------------------------------------------------------
(* What is written to the cache *)

\* the upstream call of task i of request r fails in this step
FailedNow(r, i) ==
    /\ i \in DOMAIN call[r]
    /\ call[r][i].st = "inflight"
    /\ i \in DOMAIN call'[r]
    /\ call'[r][i].st # "inflight"
    /\ call'[r][i].res.weather = None

\* C20: an entry of the cache is created or changed only by a fetch of its
\* key whose upstream call succeeds in that step, and to the result of that
\* call; a fetch whose upstream call fails neither creates nor overwrites
\* the entry of its key and counts no cache write.
C20_OnlySuccessIsCached ==
    [][/\ \A k \in DOMAIN cache' :
            (k \notin DOMAIN cache \/ cache'[k] # cache[k]) =>
                /\ upstream[k].ok
                /\ cache'[k].v = ComposeResult(upstream[k], now)
                /\ \E r \in Requests : \E i \in 1..BATCH_SIZE :
                      /\ FetchedNow(r, i)
                      /\ cacheKey(call[r][i].p.lat, call[r][i].p.lng) = k
       /\ \A r \in Requests : \A i \in 1..BATCH_SIZE :
            FailedNow(r, i) =>
                LET key == cacheKey(call[r][i].p.lat, call[r][i].p.lng)
                IN /\ key \in DOMAIN cache' => (key \in DOMAIN cache /\ cache'[key] = cache[key])
                   /\ nCacheSet'[r] = nCacheSet[r]
      ]_vars

\* two rows of one key were fetched and both calls failed: the second went
\* upstream again and the cache holds nothing
C20_Witness ==
    \E r \in Requests :
        /\ pc[r] = "done"
        /\ nUpstream[r] >= 2
        /\ nCacheSet[r] = 0
        /\ cache = <<>>
        /\ \E m, n \in 1..Len(datastore) :
              /\ m < n
              /\ HasCoords(datastore[m])
              /\ HasCoords(datastore[n])
              /\ KeyOf(datastore[m]) = KeyOf(datastore[n])
              /\ \A j \in 1..Len(datastore) : HasCoords(datastore[j]) => j \in {m, n}

====
